---------------------------- MODULE Spec2Model ----------------------------
(***************************************************************************)
(* Model of call-stack-chart.js: createCallStackChart validates an options *)
(* object, computes the stack-frame size, builds the layout and the bar    *)
(* series and hands them to Plotly.newPlot.  The file holds two variants   *)
(* of the function: the first (lines 1-213) validates `id`, renders into   *)
(* the element with that id and appends an attribution anchor to it; the   *)
(* second (lines 215-392) has no `id` and renders into the fixed element   *)
(* 'call-stack-chart'.  The second variant's definitions carry a suffix 2. *)
(***************************************************************************)
EXTENDS Integers, Sequences, FiniteSets, TLC

(***************************************************************************)
(* Bounds of the model.                                                    *)
(***************************************************************************)
MaxArgs == 2
MaxCalls == 3

(***************************************************************************)
(* JavaScript values.  Every value carries its runtime tag; the payload    *)
(* field has a different name per tag.                                     *)
(***************************************************************************)
Str(s) == [t |-> "string", s |-> s]
Num(n) == [t |-> "number", n |-> n]
Bool(b) == [t |-> "boolean", b |-> b]
Arr(a) == [t |-> "array", a |-> a]
Undefined == [t |-> "undefined"]
Null == [t |-> "null"]
Obj == [t |-> "plainobject"]

\* The typeof operator: null, arrays and plain objects are all 'object'.
TypeOf(v) ==
    IF v.t \in {"null", "array", "plainobject"} THEN "object" ELSE v.t

\* Number-to-string conversion of a template literal, as a sequence of
\* one-character strings.
DigitChars == <<"0", "1", "2", "3", "4", "5", "6", "7", "8", "9">>

RECURSIVE NatToString(_)
NatToString(n) ==
    IF n < 10 THEN <<DigitChars[n + 1]>>
    ELSE NatToString(n \div 10) \o <<DigitChars[(n % 10) + 1]>>

NumberToString(n) ==
    IF n < 0 THEN <<"-">> \o NatToString(0 - n) ELSE NatToString(n)

(***************************************************************************)
(* Module constants.                                                       *)
(***************************************************************************)
\* Mutant: the label follows the constant's name.
RETURN_VARIABLE_Renamed == <<"Return Variable">>

RETURN_VARIABLE == <<"Return Value">>
BEFORE_CALL == "Before Call"
DURING_CALL == "During Call"
AFTER_CALL == "After Call"

\* Object.entries(argumentTypeNames): the [arg, type] pairs in insertion order.
argumentTypeNames ==
    << <<"id", "string">>,
       <<"title", "string">>,
       <<"returnValueSize", "number">>,
       <<"returnValueOnCallStack", "boolean">>,
       <<"callArgs", "object">>,
       <<"linkRegister", "boolean">>,
       <<"padding", "number">>,
       <<"yMax", "number">> >>

argumentTypeNames2 ==
    << <<"title", "string">>,
       <<"returnValueSize", "number">>,
       <<"returnValueOnCallStack", "boolean">>,
       <<"callArgs", "object">>,
       <<"linkRegister", "boolean">>,
       <<"padding", "number">>,
       <<"yMax", "number">> >>

\* The elements of the embedding page that can be looked up by id.
Elements == {"chart-a", "chart-b", "call-stack-chart"}
\* Every string that is used as a container id.
ContainerIds == Elements \cup {"no-such-element"}

(***************************************************************************)
(* Validation: the forEach over the table throws at the first entry whose  *)
(* typeof differs; the result is the thrown message, or <<>> when the loop *)
(* completes.                                                              *)
(***************************************************************************)
ErrorMessage(arg, type) == <<"Expected ", arg, " to be of type ", type>>

RECURSIVE ValidateFrom(_, _, _)
ValidateFrom(options, table, i) ==
    IF i > Len(table) THEN <<>>
    ELSE IF TypeOf(options[table[i][1]]) # table[i][2]
         THEN ErrorMessage(table[i][1], table[i][2])
         ELSE ValidateFrom(options, table, i + 1)

\* Mutant: the loop runs to its end and the last mismatch is reported.
RECURSIVE ValidateLastFrom(_, _, _)
ValidateLastFrom(options, table, i) ==
    IF i < 1 THEN <<>>
    ELSE IF TypeOf(options[table[i][1]]) # table[i][2]
         THEN ErrorMessage(table[i][1], table[i][2])
         ELSE ValidateLastFrom(options, table, i - 1)

Validate_LastMismatch(options, table) ==
    ValidateLastFrom(options, table, Len(table))

Validate(options, table) == ValidateFrom(options, table, 1)

(***************************************************************************)
(* Frame size.                                                             *)
(***************************************************************************)
\* callArgs.reduce((acc, {size}) => acc + size, 0): a left fold.
RECURSIVE Reduce(_, _, _)
Reduce(callArgs, acc, i) ==
    IF i > Len(callArgs) THEN acc
    ELSE Reduce(callArgs, acc + callArgs[i].size, i + 1)

\* Mutant: the return value is counted whether or not it is on the stack.
callStackFrameSize_AlwaysReturnValue(returnValueSize, returnValueOnCallStack, callArgs, linkRegister, padding) ==
    0
    + returnValueSize
    + Reduce(callArgs, 0, 1)
    + (IF linkRegister THEN 4 ELSE 0)
    + 4
    + padding

\* Mutant: the frame pointer's 4 bytes are left out.
callStackFrameSize_NoFramePointer(returnValueSize, returnValueOnCallStack, callArgs, linkRegister, padding) ==
    0
    + returnValueSize * (IF returnValueOnCallStack THEN 1 ELSE 0)
    + Reduce(callArgs, 0, 1)
    + (IF linkRegister THEN 4 ELSE 0)
    + padding

callStackFrameSize(returnValueSize, returnValueOnCallStack, callArgs, linkRegister, padding) ==
    0
    + returnValueSize * (IF returnValueOnCallStack THEN 1 ELSE 0)
    + Reduce(callArgs, 0, 1)
    + (IF linkRegister THEN 4 ELSE 0)
    + 4
    + padding


(***************************************************************************)
(* Layout: the fields that depend on the options, with the shapes and      *)
(* annotations in the order of the source.  The first annotation's y is    *)
(* returnValueSize + callStackFrameSize / 2, kept as an exact fraction.    *)
(***************************************************************************)
\* Mutant: the rectangle stops at the top of the frame and the label reports
\* the column's height.
layout_TotalHeight(title, returnValueSize, yMax, frameBytes) ==
    [ barmode |-> "stack",
      title |-> title,
      xaxis |-> [title |-> "Call State"],
      yaxis |-> [title |-> "Stack Usage (Bytes)", range |-> <<0, yMax>>],
      showlegend |-> FALSE,
      margin |-> [l |-> 40, r |-> 0, t |-> 100, b |-> 40],
      annotations |->
        << [ y |-> [num |-> 2 * returnValueSize + frameBytes, den |-> 2],
             xref |-> "x", yref |-> "y",
             text |-> <<"Function Call">>, textangle |-> 270 ],
           [ y |-> [num |-> returnValueSize + frameBytes + 2, den |-> 1],
             xref |-> "paper", yref |-> "y",
             text |-> NumberToString(returnValueSize + frameBytes) \o <<" Bytes">>,
             textangle |-> 0 ] >>,
      shapes |->
        << [ type |-> "line",
             y0 |-> returnValueSize, y1 |-> returnValueSize,
             xref |-> "paper", yref |-> "y", dash |-> "solid" ],
           [ type |-> "rect",
             y0 |-> returnValueSize - 4,
             y1 |-> returnValueSize + frameBytes,
             xref |-> "x", yref |-> "y", dash |-> "dot" ] >> ]

layout(title, returnValueSize, yMax, frameBytes) ==
    [ barmode |-> "stack",
      title |-> title,
      xaxis |-> [title |-> "Call State"],
      yaxis |-> [title |-> "Stack Usage (Bytes)", range |-> <<0, yMax>>],
      showlegend |-> FALSE,
      margin |-> [l |-> 40, r |-> 0, t |-> 100, b |-> 40],
      annotations |->
        << [ y |-> [num |-> 2 * returnValueSize + frameBytes, den |-> 2],
             xref |-> "x", yref |-> "y",
             text |-> <<"Function Call">>, textangle |-> 270 ],
           [ y |-> [num |-> returnValueSize + frameBytes + 2, den |-> 1],
             xref |-> "paper", yref |-> "y",
             text |-> NumberToString(frameBytes) \o <<" Bytes">>,
             textangle |-> 0 ] >>,
      shapes |->
        << [ type |-> "line",
             y0 |-> returnValueSize, y1 |-> returnValueSize,
             xref |-> "paper", yref |-> "y", dash |-> "solid" ],
           [ type |-> "rect",
             y0 |-> returnValueSize - 4,
             y1 |-> returnValueSize + frameBytes + 4,
             xref |-> "x", yref |-> "y", dash |-> "dot" ] >> ]

layout2(title, returnValueSize, yMax, frameBytes) ==
    [ barmode |-> "stack",
      title |-> title,
      xaxis |-> [title |-> "Call State"],
      yaxis |-> [title |-> "Stack Usage (Bytes)", range |-> <<0, yMax>>],
      showlegend |-> FALSE,
      annotations |->
        << [ y |-> [num |-> 2 * returnValueSize + frameBytes, den |-> 2],
             xref |-> "paper", yref |-> "y",
             text |-> <<"Function Call">>, textangle |-> 270 ],
           [ y |-> [num |-> returnValueSize + frameBytes + 2, den |-> 1],
             xref |-> "paper", yref |-> "y",
             text |-> NumberToString(frameBytes) \o <<" Bytes">>,
             textangle |-> 0 ] >>,
      shapes |->
        << [ type |-> "line",
             y0 |-> returnValueSize, y1 |-> returnValueSize,
             xref |-> "paper", yref |-> "y", dash |-> "solid" ],
           [ type |-> "rect",
             y0 |-> returnValueSize - 4,
             y1 |-> returnValueSize + frameBytes + 4,
             xref |-> "x", yref |-> "y", dash |-> "dot" ] >> ]

(***************************************************************************)
(* Bar segments.                                                           *)
(***************************************************************************)
barStack(x, y, color, shape, text) ==
    [ x |-> <<x>>,
      y |-> <<y>>,
      type |-> "bar",
      marker |-> [color |-> color, pattern |-> [shape |-> shape]],
      text |-> text ]

barStack2(x, y, color, text) ==
    [ x |-> <<x>>,
      y |-> <<y>>,
      type |-> "bar",
      marker |-> [color |-> color],
      text |-> text ]

\* The template literal `Argument ${index} (${name})`.
ArgumentText(index, name) ==
    <<"Argument ">> \o NumberToString(index) \o <<" (", name, ")">>

\* Mutant: the arguments are drawn top to bottom.
MapCallArgs_Reversed(callArgs) ==
    [ i \in 1..Len(callArgs) |->
        barStack(DURING_CALL, callArgs[Len(callArgs) + 1 - i].size,
                 callArgs[Len(callArgs) + 1 - i].color, "",
                 ArgumentText(i - 1, callArgs[Len(callArgs) + 1 - i].name)) ]

\* callArgs.map(({ name, size, color }, index) => barStack(...)).
MapCallArgs(callArgs) ==
    [ i \in 1..Len(callArgs) |->
        barStack(DURING_CALL, callArgs[i].size, callArgs[i].color, "",
                 ArgumentText(i - 1, callArgs[i].name)) ]

MapCallArgs2(callArgs) ==
    [ i \in 1..Len(callArgs) |->
        barStack2(DURING_CALL, callArgs[i].size, callArgs[i].color,
                  ArgumentText(i - 1, callArgs[i].name)) ]

\* Mutant: the duplicate return value is drawn below the arguments.
traces_DuplicateBelowArgs(returnValueSize, returnValueOnCallStack, callArgs, linkRegister, padding) ==
    << barStack(BEFORE_CALL, returnValueSize, "lightgrey", "", RETURN_VARIABLE),
       IF returnValueOnCallStack
       THEN barStack(DURING_CALL, returnValueSize, "lightgrey", "", RETURN_VARIABLE)
       ELSE barStack(DURING_CALL, returnValueSize, "lightblue", "/", RETURN_VARIABLE) >>
    \o (IF linkRegister
        THEN <<barStack(DURING_CALL, 4, "lightgreen", "", <<"Link Register">>)>>
        ELSE <<>>)
    \o <<barStack(DURING_CALL, 4, "lightgreen", "", <<"Frame Pointer">>)>>
    \o (IF returnValueOnCallStack
        THEN <<barStack(DURING_CALL, returnValueSize, "lightblue", "/",
                        <<"Return Value">>)>>
        ELSE <<>>)
    \o MapCallArgs(callArgs)
    \o << barStack(DURING_CALL, padding, "white", "", <<"Padding">>),
          barStack(AFTER_CALL, returnValueSize, "lightblue", "", RETURN_VARIABLE) >>

\* Mutant: the link register is drawn whatever the flag.
traces_LinkRegisterAlways(returnValueSize, returnValueOnCallStack, callArgs, linkRegister, padding) ==
    << barStack(BEFORE_CALL, returnValueSize, "lightgrey", "", RETURN_VARIABLE),
       IF returnValueOnCallStack
       THEN barStack(DURING_CALL, returnValueSize, "lightgrey", "", RETURN_VARIABLE)
       ELSE barStack(DURING_CALL, returnValueSize, "lightblue", "/", RETURN_VARIABLE) >>
    \o <<barStack(DURING_CALL, 4, "lightgreen", "", <<"Link Register">>)>>
    \o <<barStack(DURING_CALL, 4, "lightgreen", "", <<"Frame Pointer">>)>>
    \o MapCallArgs(callArgs)
    \o (IF returnValueOnCallStack
        THEN <<barStack(DURING_CALL, returnValueSize, "lightblue", "/",
                        <<"Return Value">>)>>
        ELSE <<>>)
    \o << barStack(DURING_CALL, padding, "white", "", <<"Padding">>),
          barStack(AFTER_CALL, returnValueSize, "lightblue", "", RETURN_VARIABLE) >>

\* The array literal handed to Plotly.newPlot as its second argument.
traces(returnValueSize, returnValueOnCallStack, callArgs, linkRegister, padding) ==
    << barStack(BEFORE_CALL, returnValueSize, "lightgrey", "", RETURN_VARIABLE),
       IF returnValueOnCallStack
       THEN barStack(DURING_CALL, returnValueSize, "lightgrey", "", RETURN_VARIABLE)
       ELSE barStack(DURING_CALL, returnValueSize, "lightblue", "/", RETURN_VARIABLE) >>
    \o (IF linkRegister
        THEN <<barStack(DURING_CALL, 4, "lightgreen", "", <<"Link Register">>)>>
        ELSE <<>>)
    \o <<barStack(DURING_CALL, 4, "lightgreen", "", <<"Frame Pointer">>)>>
    \o MapCallArgs(callArgs)
    \o (IF returnValueOnCallStack
        THEN <<barStack(DURING_CALL, returnValueSize, "lightblue", "/",
                        <<"Return Value">>)>>
        ELSE <<>>)
    \o << barStack(DURING_CALL, padding, "white", "", <<"Padding">>),
          barStack(AFTER_CALL, returnValueSize, "lightblue", "", RETURN_VARIABLE) >>

traces2(returnValueSize, returnValueOnCallStack, callArgs, linkRegister, padding) ==
    << barStack2(BEFORE_CALL, returnValueSize, "lightgrey", RETURN_VARIABLE),
       barStack2(DURING_CALL, returnValueSize,
                 IF returnValueOnCallStack THEN "lightgrey" ELSE "lightblue",
                 RETURN_VARIABLE) >>
    \o (IF linkRegister
        THEN <<barStack2(DURING_CALL, 4, "lightgreen", <<"Link Register">>)>>
        ELSE <<>>)
    \o <<barStack2(DURING_CALL, 4, "lightgreen", <<"Frame Pointer">>)>>
    \o MapCallArgs2(callArgs)
    \o (IF returnValueOnCallStack
        THEN <<barStack2(DURING_CALL, returnValueSize, "lightblue",
                         <<"Return Value">>)>>
        ELSE <<>>)
    \o << barStack2(DURING_CALL, padding, "white", <<"Padding">>),
          barStack2(AFTER_CALL, returnValueSize, "lightblue", RETURN_VARIABLE) >>

\* The attribution anchor built after the plot.
sourceLink ==
    [ tag |-> "a",
      href |-> "https://github.com/JPHutchins/article-assets/blob/main/call-stack-chart.js",
      target |-> "_blank",
      textContent |-> "(c) 2024 JPHutchins + sparklerfish | Source Code",
      classList |-> {"source-link"} ]

(***************************************************************************)
(* State.                                                                  *)
(*   fn          the function of the latest invocation ("none" at start)   *)
(*   options     its argument                                              *)
(*   thrown      what it threw: kind "none" when it returned               *)
(*   frameSize   <<callStackFrameSize>> once computed, else <<>>           *)
(*   plotLayout  <<layout>> once constructed, else <<>>                    *)
(*   plotData    the traces once constructed, else <<>>                    *)
(*   log         the side effects of the latest invocation, in order       *)
(*   plots       per container id, the Plotly.newPlot calls made on it     *)
(*   appended    per container id, the anchors appended to it              *)
(*   calls       the number of invocations so far                          *)
(***************************************************************************)
VARIABLES fn, options, thrown, frameSize, plotLayout, plotData, log,
          plots, appended, calls

vars == <<fn, options, thrown, frameSize, plotLayout, plotData, log,
          plots, appended, calls>>

NoOptions ==
    [ id |-> Undefined, title |-> Undefined, returnValueSize |-> Undefined,
      returnValueOnCallStack |-> Undefined, callArgs |-> Undefined,
      linkRegister |-> Undefined, padding |-> Undefined, yMax |-> Undefined ]

Returned == [kind |-> "none", message |-> <<>>]
Threw(kind, message) == [kind |-> kind, message |-> message]

NewPlotCall(id) == [op |-> "Plotly.newPlot", target |-> id]
AppendChildCall(id) == [op |-> "appendChild", target |-> id, child |-> sourceLink]

\* Mutant: the anchor is created and never attached.
AppendChild_Detached(a, id) == a

\* The effect of Plotly.newPlot(id, ...) and of
\* document.getElementById(id).appendChild(sourceLink) on the page.
NewPlot(p, id) == [p EXCEPT ![id] = @ + 1]
AppendChild(a, id) == [a EXCEPT ![id] = @ + 1]

Init ==
    /\ fn = "none"
    /\ options = NoOptions
    /\ thrown = Returned
    /\ frameSize = <<>>
    /\ plotLayout = <<>>
    /\ plotData = <<>>
    /\ log = <<>>
    /\ plots = [c \in ContainerIds |-> 0]
    /\ appended = [c \in ContainerIds |-> 0]
    /\ calls = 0

\* The invocation throws before anything is computed or rendered.
Abort(kind, message) ==
    /\ thrown' = Threw(kind, message)
    /\ frameSize' = <<>>
    /\ plotLayout' = <<>>
    /\ plotData' = <<>>
    /\ log' = <<>>
    /\ UNCHANGED <<plots, appended>>

\* callArgs.reduce on a value that passed typeof 'object' but is no array.
ReduceFailure(callArgs) ==
    IF callArgs.t = "null"
    THEN <<"Cannot read properties of null (reading 'reduce')">>
    ELSE <<"callArgs.reduce is not a function">>

\* Plotly.newPlot is given an id; on an id that names no element the library
\* is outside this repository and may throw or return.
PlotlyThrows(id) == IF id \in Elements THEN {FALSE} ELSE {TRUE, FALSE}

createCallStackChart(o) ==
    LET message == Validate(o, argumentTypeNames) IN
    /\ fn' = "createCallStackChart"
    /\ options' = o
    /\ calls' = calls + 1
    /\ IF message # <<>> THEN Abort("Error", message)
       ELSE IF o.callArgs.t # "array"
            THEN Abort("TypeError", ReduceFailure(o.callArgs))
            ELSE LET id == o.id.s
                     returnValueSize == o.returnValueSize.n
                     returnValueOnCallStack == o.returnValueOnCallStack.b
                     callArgs == o.callArgs.a
                     linkRegister == o.linkRegister.b
                     padding == o.padding.n
                     frameBytes ==
                         callStackFrameSize(returnValueSize,
                             returnValueOnCallStack, callArgs, linkRegister,
                             padding)
                 IN /\ frameSize' = <<frameBytes>>
                    /\ plotLayout' =
                         <<layout(o.title.s, returnValueSize, o.yMax.n,
                                  frameBytes)>>
                    /\ plotData' =
                         traces(returnValueSize, returnValueOnCallStack,
                                callArgs, linkRegister, padding)
                    /\ plots' = NewPlot(plots, id)
                    /\ \E throws \in PlotlyThrows(id) :
                         IF throws
                         THEN /\ thrown' = Threw("PlotlyError", <<id>>)
                              /\ log' = <<NewPlotCall(id)>>
                              /\ UNCHANGED appended
                         ELSE IF id \notin Elements
                              THEN /\ thrown' = Threw("TypeError",
                                        <<"Cannot read properties of null (reading 'appendChild')">>)
                                   /\ log' = <<NewPlotCall(id)>>
                                   /\ UNCHANGED appended
                              ELSE /\ thrown' = Returned
                                   /\ log' = <<NewPlotCall(id), AppendChildCall(id)>>
                                   /\ appended' = AppendChild(appended, id)

createCallStackChart2(o) ==
    LET message == Validate(o, argumentTypeNames2) IN
    /\ fn' = "createCallStackChart2"
    /\ options' = o
    /\ calls' = calls + 1
    /\ IF message # <<>> THEN Abort("Error", message)
       ELSE IF o.callArgs.t # "array"
            THEN Abort("TypeError", ReduceFailure(o.callArgs))
            ELSE LET returnValueSize == o.returnValueSize.n
                     returnValueOnCallStack == o.returnValueOnCallStack.b
                     callArgs == o.callArgs.a
                     linkRegister == o.linkRegister.b
                     padding == o.padding.n
                     frameBytes ==
                         callStackFrameSize(returnValueSize,
                             returnValueOnCallStack, callArgs, linkRegister,
                             padding)
                 IN /\ frameSize' = <<frameBytes>>
                    /\ plotLayout' =
                         <<layout2(o.title.s, returnValueSize, o.yMax.n,
                                   frameBytes)>>
                    /\ plotData' =
                         traces2(returnValueSize, returnValueOnCallStack,
                                 callArgs, linkRegister, padding)
                    /\ plots' = NewPlot(plots, "call-stack-chart")
                    /\ thrown' = Returned
                    /\ log' = <<NewPlotCall("call-stack-chart")>>
                    /\ UNCHANGED appended

(***************************************************************************)
(* Inputs.                                                                 *)
(***************************************************************************)
MkOptions(id, title, returnValueSize, returnValueOnCallStack, callArgs, linkRegister, padding, yMax) ==
    [ id |-> id, title |-> title, returnValueSize |-> returnValueSize,
      returnValueOnCallStack |-> returnValueOnCallStack,
      callArgs |-> callArgs, linkRegister |-> linkRegister,
      padding |-> padding, yMax |-> yMax ]

ArgX == [name |-> "x", size |-> 4, color |-> "red"]
ArgS == [name |-> "s", size |-> 32, color |-> "lightpink"]
ArgPool == {ArgX, ArgS}
ArgSeqs == UNION { [1..n -> ArgPool] : n \in 0..MaxArgs }

\* Every combination of well-typed and ill-typed field values: the inputs
\* of a single invocation.
AllOptions ==
    { MkOptions(id, title, rvs, rvocs, args, lr, pad, yMax) :
        id \in {Str("chart-a"), Str("no-such-element"), Num(7), Undefined},
        title \in {Str("Title"), Undefined},
        rvs \in {Num(4), Num(32), Str("32")},
        rvocs \in {Bool(TRUE), Bool(FALSE), Num(1)},
        args \in {Arr(a) : a \in ArgSeqs} \cup {Null, Obj, Undefined},
        lr \in {Bool(TRUE), Bool(FALSE), Str("true")},
        pad \in {Num(0), Num(4), Str("4")},
        yMax \in {Num(64), Undefined} }

\* The inputs of a sequence of invocations on the same page.
Configs ==
    { MkOptions(id, Str("Title"), Num(32), rvocs, args, lr, Num(4), Num(64)) :
        id \in {Str("chart-a"), Str("chart-b"), Str("no-such-element"), Undefined},
        rvocs \in {Bool(TRUE), Bool(FALSE)},
        args \in {Arr(<<>>), Arr(<<ArgX>>), Null},
        lr \in {Bool(TRUE), Bool(FALSE), Str("true")} }

\* A page script that invokes the functions up to MaxCalls times.
Invoke ==
    /\ calls < MaxCalls
    /\ \E o \in Configs : createCallStackChart(o)

Invoke2 ==
    /\ calls < MaxCalls
    /\ \E o \in Configs : createCallStackChart2(o)

Next == Invoke \/ Invoke2

Spec == Init /\ [][Next]_vars

\* A page script that invokes one of the functions once, on any input.
InvokeOnce ==
    /\ calls = 0
    /\ \E o \in AllOptions : createCallStackChart(o)

InvokeOnce2 ==
    /\ calls = 0
    /\ \E o \in AllOptions : createCallStackChart2(o)

NextOnce == InvokeOnce \/ InvokeOnce2

SpecOnce == Init /\ [][NextOnce]_vars

(***************************************************************************)
(* Vocabulary of the properties.                                           *)
(***************************************************************************)
Invoked == fn # "none"

\* The latest invocation got a config whose every field has its documented
\* type (callArgs an array), sizes being byte counts.
WellTypedConfig ==
    /\ Invoked
    /\ fn = "createCallStackChart" => options.id.t = "string"
    /\ options.title.t = "string"
    /\ options.returnValueSize.t = "number"
    /\ options.returnValueOnCallStack.t = "boolean"
    /\ options.callArgs.t = "array"
    /\ options.linkRegister.t = "boolean"
    /\ options.padding.t = "number"
    /\ options.yMax.t = "number"

CfgReturnValueSize == options.returnValueSize.n
CfgReturnValueOnCallStack == options.returnValueOnCallStack.b
CfgCallArgs == options.callArgs.a
CfgLinkRegister == options.linkRegister.b
CfgPadding == options.padding.n

RECURSIVE SumOfSizes(_)
SumOfSizes(args) ==
    IF args = <<>> THEN 0 ELSE Head(args).size + SumOfSizes(Tail(args))

\* The closed form of the frame size.
ClosedFormFrameSize ==
    (IF CfgReturnValueOnCallStack THEN CfgReturnValueSize ELSE 0)
    + SumOfSizes(CfgCallArgs)
    + (IF CfgLinkRegister THEN 4 ELSE 0)
    + 4
    + CfgPadding

\* The segments of one column of the series, bottom to top.
Column(x) == SelectSeq(plotData, LAMBDA seg : seg.x = <<x>>)
During == Column(DURING_CALL)

RECURSIVE SumOfHeights(_)
SumOfHeights(segs) ==
    IF segs = <<>> THEN 0 ELSE Head(segs).y[1] + SumOfHeights(Tail(segs))

\* Reading a decimal numeral back.
DigitValue(c) == CHOOSE d \in 0..9 : DigitChars[d + 1] = c
IsDigit(c) == \E d \in 0..9 : DigitChars[d + 1] = c

RECURSIVE ParseNat(_)
ParseNat(digits) ==
    IF Len(digits) = 1 THEN DigitValue(digits[1])
    ELSE 10 * ParseNat(SubSeq(digits, 1, Len(digits) - 1))
         + DigitValue(digits[Len(digits)])

IsNumeral(digits) ==
    /\ Len(digits) >= 1
    /\ \A i \in 1..Len(digits) : IsDigit(digits[i])
    /\ Len(digits) > 1 => digits[1] # "0"

\* The example config of the specification: returnValueSize 4, not on the
\* call stack, one argument x of size 4, link register, padding 4.
ExampleConfig ==
    /\ WellTypedConfig
    /\ CfgReturnValueSize = 4
    /\ CfgReturnValueOnCallStack = FALSE
    /\ CfgCallArgs = <<[name |-> "x", size |-> 4, color |-> "red"]>>
    /\ CfgLinkRegister = TRUE
    /\ CfgPadding = 4

(***************************************************************************)
(* C1: for every well-typed config the computed frame size equals          *)
(* (returnValueOnCallStack ? returnValueSize : 0) + the sum of the sizes   *)
(* of callArgs + (linkRegister ? 4 : 0) + 4 + padding; the example config  *)
(* gives 16.                                                               *)
(***************************************************************************)
C1_FrameSizeClosedForm ==
    WellTypedConfig =>
        /\ frameSize = <<ClosedFormFrameSize>>
        /\ ExampleConfig => frameSize = <<16>>

C1_Witness == ExampleConfig /\ frameSize = <<16>>

(***************************************************************************)
(* C10: for every well-typed config the During-Call segments above the     *)
(* bottom return-value segment sum to the computed frame size, so the      *)
(* column's height is returnValueSize + frameSize and the annotated byte   *)
(* count agrees with what is drawn.                                        *)
(***************************************************************************)
C10_DrawnFrameMatchesFrameSize ==
    WellTypedConfig =>
        /\ Len(During) >= 1
        /\ During[1].text = RETURN_VARIABLE
        /\ SumOfHeights(Tail(During)) = frameSize[1]
        /\ SumOfHeights(During) = CfgReturnValueSize + frameSize[1]
        /\ plotLayout[1].annotations[2].text
             = NumberToString(SumOfHeights(Tail(During))) \o <<" Bytes">>

C10_Witness ==
    /\ WellTypedConfig
    /\ CfgReturnValueOnCallStack
    /\ CfgLinkRegister
    /\ Len(CfgCallArgs) = 2
    /\ CfgPadding = 4
    /\ SumOfHeights(Tail(During)) = frameSize[1]

(***************************************************************************)
(* C9: the layout is derived from the frame size that the segments show:   *)
(* the byte-count annotation reads '<frameSize> Bytes', the line sits at   *)
(* height returnValueSize, and the dashed rectangle runs from              *)
(* returnValueSize - 4 to returnValueSize + frameSize + 4, so it contains  *)
(* the frame region [returnValueSize, returnValueSize + frameSize].        *)
(***************************************************************************)
C9_LayoutFollowsFrameSize ==
    WellTypedConfig =>
        LET drawn == SumOfHeights(Tail(During))
            label == plotLayout[1].annotations[2].text
            numeral == SubSeq(label, 1, Len(label) - 1)
            line == plotLayout[1].shapes[1]
            rect == plotLayout[1].shapes[2]
        IN /\ Len(plotLayout) = 1
           /\ label[Len(label)] = " Bytes"
           /\ IsNumeral(numeral)
           /\ ParseNat(numeral) = drawn
           /\ line.type = "line"
           /\ line.y0 = CfgReturnValueSize
           /\ line.y1 = CfgReturnValueSize
           /\ rect.type = "rect"
           /\ rect.dash = "dot"
           /\ rect.y0 = CfgReturnValueSize - 4
           /\ rect.y1 = CfgReturnValueSize + drawn + 4
           /\ rect.y0 <= CfgReturnValueSize
           /\ CfgReturnValueSize + drawn <= rect.y1

C9_Witness ==
    /\ ExampleConfig
    /\ plotLayout[1].annotations[2].text = <<"1", "6", " Bytes">>
    /\ plotLayout[1].shapes[2].y0 = 0
    /\ plotLayout[1].shapes[2].y1 = 24

(***************************************************************************)
(* Reading a segment back.                                                 *)
(***************************************************************************)
SegText(seg) == seg.text
SegSize(seg) == seg.y[1]
SegColor(seg) == seg.marker.color

\* Segments of a sequence that carry a given label.
Labelled(segs, text) == SelectSeq(segs, LAMBDA seg : SegText(seg) = text)

\* A per-argument segment is labelled `Argument <index> (<name>)`.
IsArgumentSegment(seg) ==
    /\ Len(SegText(seg)) >= 5
    /\ SegText(seg)[1] = "Argument "
    /\ SegText(seg)[Len(SegText(seg)) - 2] = " ("
    /\ SegText(seg)[Len(SegText(seg))] = ")"
    /\ IsNumeral(SubSeq(SegText(seg), 2, Len(SegText(seg)) - 3))

ArgumentIndex(seg) == ParseNat(SubSeq(SegText(seg), 2, Len(SegText(seg)) - 3))
ArgumentName(seg) == SegText(seg)[Len(SegText(seg)) - 1]

ArgumentSegments == SelectSeq(plotData, IsArgumentSegment)

\* Register-resident styling of a return value: light blue, and hatched
\* where the segment carries a pattern.
RegisterStyled(seg) ==
    /\ SegColor(seg) = "lightblue"
    /\ fn = "createCallStackChart" => seg.marker.pattern.shape = "/"

(***************************************************************************)
(* C4: for every well-typed config the During-Call segments are, bottom to *)
(* top: return value, link register (only if linkRegister), frame pointer  *)
(* (always, 4), one segment per call argument in input order, a duplicate  *)
(* return value (only if returnValueOnCallStack), padding (sized padding); *)
(* and nothing else.                                                       *)
(***************************************************************************)
C4_DuringCallOrder ==
    WellTypedConfig =>
        LET n == Len(CfgCallArgs)
            k == IF CfgLinkRegister THEN 1 ELSE 0
            r == IF CfgReturnValueOnCallStack THEN 1 ELSE 0
        IN /\ Len(During) = 3 + k + n + r
           /\ SegText(During[1]) = <<"Return Value">>
           /\ SegSize(During[1]) = CfgReturnValueSize
           /\ CfgLinkRegister =>
                /\ SegText(During[2]) = <<"Link Register">>
                /\ SegSize(During[2]) = 4
           /\ SegText(During[2 + k]) = <<"Frame Pointer">>
           /\ SegSize(During[2 + k]) = 4
           /\ \A i \in 1..n :
                /\ IsArgumentSegment(During[2 + k + i])
                /\ ArgumentIndex(During[2 + k + i]) = i - 1
                /\ ArgumentName(During[2 + k + i]) = CfgCallArgs[i].name
                /\ SegSize(During[2 + k + i]) = CfgCallArgs[i].size
           /\ CfgReturnValueOnCallStack =>
                /\ SegText(During[3 + k + n]) = <<"Return Value">>
                /\ SegSize(During[3 + k + n]) = CfgReturnValueSize
           /\ SegText(During[3 + k + n + r]) = <<"Padding">>
           /\ SegSize(During[3 + k + n + r]) = CfgPadding

C4_Witness ==
    /\ ExampleConfig
    /\ [i \in 1..Len(During) |-> SegText(During[i])]
         = << <<"Return Value">>, <<"Link Register">>, <<"Frame Pointer">>,
              <<"Argument ", "0", " (", "x", ")">>, <<"Padding">> >>
    /\ [i \in 1..Len(During) |-> SegSize(During[i])] = <<4, 4, 4, 4, 4>>

(***************************************************************************)
(* C5: with returnValueOnCallStack false the During-Call column has        *)
(* exactly one return-value segment, styled register-resident; with true   *)
(* it has the initial return-value segment and a second one, the duplicate *)
(* on the stack, sized returnValueSize.                                    *)
(***************************************************************************)
C5_ReturnValueSegments ==
    WellTypedConfig =>
        LET rv == Labelled(During, <<"Return Value">>)
        IN IF CfgReturnValueOnCallStack
           THEN /\ Len(rv) = 2
                /\ rv[1] = During[1]
                /\ rv[2] = During[Len(During) - 1]
                /\ SegSize(rv[2]) = CfgReturnValueSize
           ELSE /\ Len(rv) = 1
                /\ rv[1] = During[1]
                /\ RegisterStyled(rv[1])

C5_Witness ==
    /\ WellTypedConfig
    /\ fn = "createCallStackChart"
    /\ CfgReturnValueOnCallStack
    /\ CfgReturnValueSize = 32
    /\ Len(CfgCallArgs) = 1
    /\ Len(Labelled(During, <<"Return Value">>)) = 2

(***************************************************************************)
(* C6: with linkRegister false no 'Link Register' segment is anywhere in   *)
(* the series; with true there is exactly one, in the During-Call column,  *)
(* sized 4.                                                                *)
(***************************************************************************)
C6_LinkRegisterSegment ==
    WellTypedConfig =>
        LET lr == Labelled(plotData, <<"Link Register">>)
        IN IF CfgLinkRegister
           THEN /\ Len(lr) = 1
                /\ lr[1].x = <<DURING_CALL>>
                /\ SegSize(lr[1]) = 4
           ELSE Len(lr) = 0

C6_Witness ==
    /\ WellTypedConfig
    /\ CfgLinkRegister
    /\ CfgReturnValueSize = 32
    /\ CfgPadding = 0
    /\ Len(Labelled(plotData, <<"Link Register">>)) = 1

(***************************************************************************)
(* C7: the series has callArgs.length per-argument segments; the i-th is   *)
(* that of the i-th element of callArgs, with exactly its size and color;  *)
(* an empty callArgs yields none.                                          *)
(***************************************************************************)
C7_ArgumentSegments ==
    WellTypedConfig =>
        /\ Len(ArgumentSegments) = Len(CfgCallArgs)
        /\ \A i \in 1..Len(CfgCallArgs) :
             /\ ArgumentIndex(ArgumentSegments[i]) = i - 1
             /\ ArgumentName(ArgumentSegments[i]) = CfgCallArgs[i].name
             /\ SegSize(ArgumentSegments[i]) = CfgCallArgs[i].size
             /\ SegColor(ArgumentSegments[i]) = CfgCallArgs[i].color

C7_Witness ==
    /\ WellTypedConfig
    /\ Len(CfgCallArgs) = 2
    /\ CfgCallArgs[1].name = "s"
    /\ CfgCallArgs[2].name = "x"
    /\ Len(ArgumentSegments) = 2
    /\ SegColor(ArgumentSegments[1]) = "lightpink"
    /\ SegSize(ArgumentSegments[2]) = 4

(***************************************************************************)
(* The expected-type table as the specification gives it.                  *)
(***************************************************************************)
RecognizedFields ==
    <<"id", "title", "returnValueSize", "returnValueOnCallStack", "callArgs",
      "linkRegister", "padding", "yMax">>

ExpectedType ==
    [ id |-> "string", title |-> "string", returnValueSize |-> "number",
      returnValueOnCallStack |-> "boolean", callArgs |-> "object",
      linkRegister |-> "boolean", padding |-> "number", yMax |-> "number" ]

\* The fields the invoked variant recognizes: the second one has no id.
CheckedFields ==
    IF fn = "createCallStackChart" THEN RecognizedFields
    ELSE SelectSeq(RecognizedFields, LAMBDA f : f # "id")

\* The runtime type of a field's value, read off the value's tag.
RuntimeType(f) ==
    CASE options[f].t = "string" -> "string"
      [] options[f].t = "number" -> "number"
      [] options[f].t = "boolean" -> "boolean"
      [] options[f].t = "undefined" -> "undefined"
      [] OTHER -> "object"

Mismatches ==
    { i \in 1..Len(CheckedFields) :
        RuntimeType(CheckedFields[i]) # ExpectedType[CheckedFields[i]] }

FirstMismatch == CHOOSE i \in Mismatches : \A j \in Mismatches : i <= j

NothingConstructed ==
    /\ frameSize = <<>>
    /\ plotLayout = <<>>
    /\ plotData = <<>>
    /\ log = <<>>

AllSideEffects ==
    IF fn = "createCallStackChart"
    THEN /\ Len(log) = 2
         /\ log[1].op = "Plotly.newPlot"
         /\ log[2].op = "appendChild"
    ELSE /\ Len(log) = 1
         /\ log[1].op = "Plotly.newPlot"

(***************************************************************************)
(* C3: an invocation is all-or-nothing and fails only in validation:       *)
(* either the validation error is raised and no rendering side effect has  *)
(* occurred, or validation passes and the invocation completes without     *)
(* error having performed all of its side effects.                         *)
(***************************************************************************)
C3_AllOrNothing ==
    Invoked =>
        \/ /\ Mismatches # {}
           /\ thrown.kind = "Error"
           /\ log = <<>>
        \/ /\ Mismatches = {}
           /\ thrown = Returned
           /\ AllSideEffects

\* An invocation that returns.
Succeeds == calls' = calls + 1 /\ thrown' = Returned

\* The container the renderer is given: the config's id in the variant with
\* attribution, the fixed 'call-stack-chart' in the variant without id.
RenderTarget ==
    IF fn = "createCallStackChart" THEN options.id.s ELSE "call-stack-chart"

\* The statement with the config's id as the renderer's target in both
\* variants.
C8_Original ==
    [][Succeeds =>
        /\ options'.id.t = "string"
        /\ plots' = [plots EXCEPT ![options'.id.s] = @ + 1]
        /\ IF fn' = "createCallStackChart"
           THEN /\ log' = << [op |-> "Plotly.newPlot", target |-> options'.id.s],
                             [op |-> "appendChild", target |-> options'.id.s,
                              child |-> sourceLink] >>
                /\ appended' = [appended EXCEPT ![options'.id.s] = @ + 1]
           ELSE /\ log' = << [op |-> "Plotly.newPlot", target |-> options'.id.s] >>
                /\ appended' = appended]_vars

(***************************************************************************)
(* C8: every successful invocation calls the renderer exactly once, on the *)
(* container the config's id names in the variant with attribution and on  *)
(* the fixed container 'call-stack-chart' in the variant without id; the   *)
(* variant with attribution then appends exactly one anchor to its         *)
(* container, after the rendering call, and the other variant appends      *)
(* none.  So n successful invocations of the attribution variant on one id *)
(* add n renderer calls on it and n anchors to it.                         *)
(***************************************************************************)
C8_RendererOncePerSuccess ==
    [][Succeeds =>
        /\ plots' = [plots EXCEPT ![RenderTarget'] = @ + 1]
        /\ IF fn' = "createCallStackChart"
           THEN /\ log' = << [op |-> "Plotly.newPlot", target |-> RenderTarget'],
                             [op |-> "appendChild", target |-> RenderTarget',
                              child |-> sourceLink] >>
                /\ appended' = [appended EXCEPT ![RenderTarget'] = @ + 1]
           ELSE /\ log' = << [op |-> "Plotly.newPlot", target |-> RenderTarget'] >>
                /\ appended' = appended]_vars

\* Two successful invocations of the attribution variant on one id, and one
\* of the other variant.
C8_Witness ==
    /\ calls = 3
    /\ thrown = Returned
    /\ plots["chart-a"] = 2
    /\ appended["chart-a"] = 2
    /\ plots["call-stack-chart"] = 1
    /\ appended["call-stack-chart"] = 0

=============================================================================
